---- MODULE Spec2Model ----
(***************************************************************************)
(* Model of btc-ai-api: the indicator functions (indicators.py), the       *)
(* signal classifier (analyzer.py), the snapshot recommendation            *)
(* (analysis.py), the snapshot client (client.py), the price feed          *)
(* (data.py), the web payload and server (web.py) and the CLI (cli.py).    *)
(*                                                                         *)
(* Numbers.  Python floats are modelled as exact rationals                 *)
(* [num |-> n, den |-> d] with d > 0.  A standard deviation is carried as  *)
(* the rational of its square (the sample variance), so that comparisons   *)
(* with it stay exact.  Percentages of the snapshot path are integers in   *)
(* hundredths of a percent (0.25% is 25).                                  *)
(***************************************************************************)
EXTENDS Integers, Sequences, FiniteSets, TLC

VARIABLES entry, points, window, short_window, long_window, market_data,
          http, payload, hours_param, fetcher, hours, feed, ret,
          thread, frames, cli

vars == <<entry, points, window, short_window, long_window, market_data,
          http, payload, hours_param, fetcher, hours, feed, ret,
          thread, frames, cli>>

(***************************************************************************)
(* Bounds of the explored inputs.                                          *)
(***************************************************************************)
MaxLen == 3
MaxWindow == 4
MaxEntries == 3
MaxRequests == 2
MaxIterations == 3

\* Prices of the enumerated series: zero, a pair 400% apart, a pair 0.2%
\* apart (inside the dead-band) and a pair 0.6% apart (outside it).
Prices == {0, 100, 500, 501, 503}

ShortSeries == UNION {[1..n -> Prices] : n \in 0..MaxLen}

\* One leading price followed by a constant run, around the 60-point cap of
\* the volatility window.
LongSeries ==
    {[i \in 1..n |-> IF i = 1 THEN a ELSE b] : a \in Prices, b \in Prices, n \in 60..62}

\* 80-point ramps in the shape of tests/test_web.py _sample_points.
RampUp == [i \in 1..80 |-> 100 + (i - 1)]
RampDown == [i \in 1..80 |-> 179 - (i - 1)]

\* The series of tests/test_indicators.py.
TestSeries == {<<1, 2, 3, 4>>, <<100, 110>>, <<100, 101>>, RampUp, RampDown}

Series == ShortSeries \cup LongSeries \cup TestSeries

\* Window arguments: non-positive ones, small ones, the 5 of
\* tests/test_indicators.py and the defaults 20 and 60 of generate_signal.
Windows == (-1..MaxWindow) \cup {5, 20, 60}

(***************************************************************************)
(* Inputs of the snapshot path.                                            *)
(***************************************************************************)
H1 == "price_change_percentage_1h_in_currency"

H24 == "price_change_percentage_24h_in_currency"

D7 == "price_change_percentage_7d_in_currency"

\* JSON values of a snapshot record: null or a number
NULL == [type |-> "null"]

Number(v) == [type |-> "number", v |-> v]

\* Percentage changes in hundredths of a percent, on and around the
\* thresholds 0.25, 0.5 and 5.
Pcts == {-800, -500, -100, -50, -25, 0, 25, 50, 100, 500, 600}

\* A field of a dict is absent or carries one of the values.
PartialDicts(fields, values) ==
    UNION {[present -> values] : present \in SUBSET fields}

MarketData == PartialDicts({H1, H24, D7}, Pcts)

AllFields == {"current_price", "high_24h", "low_24h", "market_cap", "total_volume",
              H1, H24, D7}

Records == PartialDicts(AllFields, {NULL, Number(50)})

Payloads == {<<>>} \cup {<<r>> : r \in Records}

(***************************************************************************)
(* Rational arithmetic.                                                    *)
(***************************************************************************)
Rat(n, d) == [num |-> n, den |-> d]

Zero == Rat(0, 1)

\* a/b > c/d for b, d > 0, by comparing the continued-fraction expansions
\* (no products, so the operands keep their size).
RECURSIVE FracGT(_, _, _, _)
FracGT(a, b, c, d) ==
    LET qa == a \div b
        qc == c \div d
        ra == a % b
        rc == c % d
    IN  IF qa # qc THEN qa > qc
        ELSE IF ra = 0 THEN FALSE
        ELSE IF rc = 0 THEN TRUE
        ELSE FracGT(d, rc, b, ra)

RatGT(x, y) == FracGT(x.num, x.den, y.num, y.den)

RatEq(x, y) == ~RatGT(x, y) /\ ~RatGT(y, x)

RECURSIVE SumSeq(_)
SumSeq(s) == IF s = <<>> THEN 0 ELSE Head(s) + SumSeq(Tail(s))

RECURSIVE SumSquares(_)
SumSquares(s) == IF s = <<>> THEN 0 ELSE Head(s) * Head(s) + SumSquares(Tail(s))

(***************************************************************************)
(* Python values.                                                          *)
(***************************************************************************)
Ok(v) == [kind |-> "ok", value |-> v]

Raise(exc, msg) == [kind |-> "raise", exc |-> exc, msg |-> msg]

Pending == [kind |-> "pending"]

\* series[-k:] for k > 0 and Len(series) >= k
LastN(s, k) == SubSeq(s, Len(s) - k + 1, Len(s))

\* series[-w:] for any integer w, as Python slices it
SliceFromEnd(s, w) ==
    IF w > 0 THEN (IF w >= Len(s) THEN s ELSE LastN(s, w))
    ELSE IF w = 0 THEN s
    ELSE SubSeq(s, (-w) + 1, Len(s))

(***************************************************************************)
(* indicators.py                                                           *)
(***************************************************************************)
\* statistics.mean of a non-empty list
mean(s) == Rat(SumSeq(s), Len(s))

\* statistics.stdev: the sample standard deviation, as its square
\* (n*sum(x^2) - sum(x)^2) / (n*(n-1)); fewer than two values raise.
stdev(s) ==
    IF Len(s) < 2
    THEN Raise("StatisticsError", "stdev requires at least two data points")
    ELSE Ok(Rat(Len(s) * SumSquares(s) - SumSeq(s) * SumSeq(s), Len(s) * (Len(s) - 1)))

\* Mutant: the mean of the first w elements, series[:w].
moving_average_first(prices, w) ==
    IF w <= 0 THEN Raise("ValueError", "window must be positive")
    ELSE IF Len(prices) < w
    THEN Raise("ValueError", "not enough data points for the requested window")
    ELSE Ok(mean(SubSeq(prices, 1, w)))

moving_average(prices, w) ==
    IF w <= 0 THEN Raise("ValueError", "window must be positive")
    ELSE IF Len(prices) < w
    THEN Raise("ValueError", "not enough data points for the requested window")
    ELSE Ok(mean(SliceFromEnd(prices, w)))

\* Mutant: the change since the first point, points[0], not points[-2].
price_change_since_first(pts) ==
    IF Len(pts) < 2 THEN Ok(Zero)
    ELSE LET start == pts[1]
             end == pts[Len(pts)]
         IN  IF start = 0 THEN Ok(Zero)
             ELSE Ok(Rat((end - start) * 100, start))

price_change(pts) ==
    IF Len(pts) < 2 THEN Ok(Zero)
    ELSE LET start == pts[Len(pts) - 1]
             end == pts[Len(pts)]
         IN  IF start = 0 THEN Ok(Zero)
             ELSE Ok(Rat((end - start) * 100, start))

\* Mutant: insufficient data raises, as in moving_average.
volatility_strict(pts, w) ==
    IF Len(pts) < w
    THEN Raise("ValueError", "not enough data points for the requested window")
    ELSE stdev(SliceFromEnd(pts, w))

volatility(pts, w) ==
    IF Len(pts) < w THEN Ok(Zero)
    ELSE stdev(SliceFromEnd(pts, w))

(***************************************************************************)
(* analyzer.py                                                             *)
(***************************************************************************)
\* The cap of the volatility window, min(len(points), 60).
VolatilityCap == 60

Min(a, b) == IF a < b THEN a ELSE b

\* x * (n/d)
Scale(x, n, d) == Rat(x.num * n, x.den * d)

\* sqrt(v) > r, for v the square of a standard deviation
SqrtGT(v, r) == r.num < 0 \/ RatGT(v, Rat(r.num * r.num, r.den * r.den))

\* x > 0 and x < 0 for a rational x
Positive(x) == x.num > 0

Negative(x) == x.num < 0

\* Mutant: no dead-band, the averages are compared directly.
classify_no_deadband(short_ma, long_ma, change_pct) ==
    IF RatGT(short_ma, long_ma) /\ Positive(change_pct)
    THEN "Bullish"
    ELSE IF RatGT(long_ma, short_ma) /\ Negative(change_pct)
    THEN "Bearish"
    ELSE "Neutral"

\* Mutant: a dead-band of 2% (1.02 and 0.98) for 0.2%.
classify_wide_band(short_ma, long_ma, change_pct) ==
    IF RatGT(short_ma, Scale(long_ma, 102, 100)) /\ Positive(change_pct)
    THEN "Bullish"
    ELSE IF RatGT(Scale(long_ma, 98, 100), short_ma) /\ Negative(change_pct)
    THEN "Bearish"
    ELSE "Neutral"

\* lines 30-38: sentiment from the two averages and the last change
\* ("Bullish" is the source's 偏多, "Bearish" 偏空, "Neutral" 中性)
classify(short_ma, long_ma, change_pct) ==
    IF RatGT(short_ma, Scale(long_ma, 1002, 1000)) /\ Positive(change_pct)
    THEN "Bullish"
    ELSE IF RatGT(Scale(long_ma, 998, 1000), short_ma) /\ Negative(change_pct)
    THEN "Bearish"
    ELSE "Neutral"

\* lines 31, 35, 38: the headline that goes with a sentiment
base_headline(sentiment) ==
    CASE sentiment = "Bullish" -> "short MA crossed above long MA, momentum up"
      [] sentiment = "Bearish" -> "short MA crossed below long MA, watch for pullback"
      [] OTHER -> "no clear price signal"

\* line 40: vol > 0.01 * long_ma
elevated(vol, long_ma) == SqrtGT(vol, Scale(long_ma, 1, 100))

\* lines 40-41: headline += suffix
with_suffix(headline, vol, long_ma) ==
    IF elevated(vol, long_ma)
    THEN headline \o <<"volatility elevated, manage position size">>
    ELSE headline

CAUTION == "reference only, not investment advice"

\* Mutant: the guard is off by one.
too_short_off_by_one(pts, lw) == Len(pts) + 1 < lw

\* line 21: the guard of generate_signal
too_short(pts, lw) == Len(pts) < lw

\* Mutant: the window is not capped.
vol_window_uncapped(pts) == Len(pts)

\* line 27: the window handed to volatility
vol_window(pts) == Min(Len(pts), VolatilityCap)

\* lines 20-59.  The result is paired with the indicator calls made before
\* the return or the raise, in call order.
generate_signal(pts, sw, lw) ==
    IF too_short(pts, lw)
    THEN [result |-> Raise("ValueError", "Not enough data to compute signals"),
          calls |-> <<>>]
    ELSE
    LET short == moving_average(pts, sw)
        long == moving_average(pts, lw)
        vol == volatility(pts, vol_window(pts))
        change == price_change(pts)
    IN  IF short.kind = "raise"
        THEN [result |-> short, calls |-> <<"moving_average">>]
        ELSE IF long.kind = "raise"
        THEN [result |-> long, calls |-> <<"moving_average", "moving_average">>]
        ELSE IF vol.kind = "raise"
        THEN [result |-> vol,
              calls |-> <<"moving_average", "moving_average", "volatility">>]
        ELSE
        LET sentiment == classify(short.value, long.value, change.value)
        IN  [result |->
               Ok([sentiment |-> sentiment,
                   headline |-> with_suffix(<<base_headline(sentiment)>>,
                                            vol.value, long.value),
                   details |-> [price |-> pts[Len(pts)],
                                short_ma |-> short.value,
                                long_ma |-> long.value,
                                volatility |-> vol.value,
                                change_pct |-> change.value],
                   caution |-> CAUTION]),
             calls |-> <<"moving_average", "moving_average", "volatility",
                         "price_change">>]

(***************************************************************************)
(* analysis.py                                                             *)
(***************************************************************************)
PctFields == <<H1, H24, D7>>

\* dict.get(key, default)
Get(d, key, default) == IF key \in DOMAIN d THEN d[key] ELSE default

Abs(v) == IF v < 0 THEN -v ELSE v

\* f"{v:+.2f}" of a value given in hundredths: sign, integer part, two decimals
FmtSigned2(v) ==
    [sign |-> IF v < 0 THEN "-" ELSE "+", whole |-> Abs(v) \div 100, frac |-> Abs(v) % 100]

\* f"{label}: {v:+.2f}%"
ChangeLine(label, v) == [label |-> label, pct |-> FmtSigned2(v)]

\* Mutant: the thresholds are inclusive.
primary_inclusive(one_hour, day) ==
    IF one_hour >= 25 /\ day >= 50
    THEN [action |-> "Consider buying",
          reason |-> "Momentum is positive across multiple timeframes."]
    ELSE IF one_hour <= -25 /\ day <= -50
    THEN [action |-> "Consider reducing exposure",
          reason |-> "Downward pressure visible in short-term and daily moves."]
    ELSE [action |-> "Hold / wait",
          reason |-> "Signals are mixed; waiting for clarity may reduce risk."]

\* lines 38-46: the action and its primary reason (0.25% is 25, 0.5% is 50)
primary(one_hour, day) ==
    IF one_hour > 25 /\ day > 50
    THEN [action |-> "Consider buying",
          reason |-> "Momentum is positive across multiple timeframes."]
    ELSE IF one_hour < -25 /\ day < -50
    THEN [action |-> "Consider reducing exposure",
          reason |-> "Downward pressure visible in short-term and daily moves."]
    ELSE [action |-> "Hold / wait",
          reason |-> "Signals are mixed; waiting for clarity may reduce risk."]

\* Mutant: the weekly thresholds are inclusive.
weekly_inclusive(week) ==
    IF week >= 500 THEN <<"Strong weekly performance suggests upward trend.">>
    ELSE IF week <= -500
    THEN <<"Sustained weekly drawdown indicates elevated downside risk.">>
    ELSE <<>>

\* lines 48-51: the weekly augmentation (5% is 500)
weekly(week) ==
    IF week > 500 THEN <<"Strong weekly performance suggests upward trend.">>
    ELSE IF week < -500
    THEN <<"Sustained weekly drawdown indicates elevated downside risk.">>
    ELSE <<>>

\* lines 19-53
summarize_trend(md) ==
    LET one_hour == Get(md, H1, 0)
        day == Get(md, H24, 0)
        week == Get(md, D7, 0)
        p == primary(one_hour, day)
    IN  [action |-> p.action,
         reasons |-> <<ChangeLine("1h change", one_hour),
                       ChangeLine("24h change", day),
                       ChangeLine("7d change", week)>>
                     \o <<p.reason>> \o weekly(week)]

(***************************************************************************)
(* Report text.  A text is the sequence of its characters, so that          *)
(* startswith, lower, the substring test and splitlines are computed on     *)
(* characters; an ANSI colour code is one symbol of the sequence.           *)
(***************************************************************************)
NL == "\n"

UpperCase == <<"A", "B", "C", "D", "E", "F", "G", "H", "I", "J", "K", "L", "M",
               "N", "O", "P", "Q", "R", "S", "T", "U", "V", "W", "X", "Y", "Z">>

LowerCase == <<"a", "b", "c", "d", "e", "f", "g", "h", "i", "j", "k", "l", "m",
               "n", "o", "p", "q", "r", "s", "t", "u", "v", "w", "x", "y", "z">>

DigitChars == <<"0", "1", "2", "3", "4", "5", "6", "7", "8", "9">>

\* The characters of the string constants of analysis.py
Spell(s) ==
    CASE s = "Consider buying" ->
          <<"C", "o", "n", "s", "i", "d", "e", "r", " ", "b", "u", "y", "i", "n", "g">>
      [] s = "Consider reducing exposure" ->
          <<"C", "o", "n", "s", "i", "d", "e", "r", " ", "r", "e", "d", "u", "c", "i", "n",
            "g", " ", "e", "x", "p", "o", "s", "u", "r", "e">>
      [] s = "Hold / wait" ->
          <<"H", "o", "l", "d", " ", "/", " ", "w", "a", "i", "t">>
      [] s = "Momentum is positive across multiple timeframes." ->
          <<"M", "o", "m", "e", "n", "t", "u", "m", " ", "i", "s", " ", "p", "o", "s", "i",
            "t", "i", "v", "e", " ", "a", "c", "r", "o", "s", "s", " ", "m", "u", "l", "t",
            "i", "p", "l", "e", " ", "t", "i", "m", "e", "f", "r", "a", "m", "e", "s", ".">>
      [] s = "Downward pressure visible in short-term and daily moves." ->
          <<"D", "o", "w", "n", "w", "a", "r", "d", " ", "p", "r", "e", "s", "s", "u", "r",
            "e", " ", "v", "i", "s", "i", "b", "l", "e", " ", "i", "n", " ", "s", "h", "o",
            "r", "t", "-", "t", "e", "r", "m", " ", "a", "n", "d", " ", "d", "a", "i", "l",
            "y", " ", "m", "o", "v", "e", "s", ".">>
      [] s = "Signals are mixed; waiting for clarity may reduce risk." ->
          <<"S", "i", "g", "n", "a", "l", "s", " ", "a", "r", "e", " ", "m", "i", "x", "e",
            "d", ";", " ", "w", "a", "i", "t", "i", "n", "g", " ", "f", "o", "r", " ", "c",
            "l", "a", "r", "i", "t", "y", " ", "m", "a", "y", " ", "r", "e", "d", "u", "c",
            "e", " ", "r", "i", "s", "k", ".">>
      [] s = "Strong weekly performance suggests upward trend." ->
          <<"S", "t", "r", "o", "n", "g", " ", "w", "e", "e", "k", "l", "y", " ", "p", "e",
            "r", "f", "o", "r", "m", "a", "n", "c", "e", " ", "s", "u", "g", "g", "e", "s",
            "t", "s", " ", "u", "p", "w", "a", "r", "d", " ", "t", "r", "e", "n", "d", ".">>
      [] s = "Sustained weekly drawdown indicates elevated downside risk." ->
          <<"S", "u", "s", "t", "a", "i", "n", "e", "d", " ", "w", "e", "e", "k", "l", "y",
            " ", "d", "r", "a", "w", "d", "o", "w", "n", " ", "i", "n", "d", "i", "c", "a",
            "t", "e", "s", " ", "e", "l", "e", "v", "a", "t", "e", "d", " ", "d", "o", "w",
            "n", "s", "i", "d", "e", " ", "r", "i", "s", "k", ".">>
      [] s = "1h change" ->
          <<"1", "h", " ", "c", "h", "a", "n", "g", "e">>
      [] s = "24h change" ->
          <<"2", "4", "h", " ", "c", "h", "a", "n", "g", "e">>
      [] s = "7d change" ->
          <<"7", "d", " ", "c", "h", "a", "n", "g", "e">>

\* str.lower
lower(text) ==
    [i \in 1..Len(text) |->
        IF \E k \in 1..Len(UpperCase) : UpperCase[k] = text[i]
        THEN LowerCase[CHOOSE k \in 1..Len(UpperCase) : UpperCase[k] = text[i]]
        ELSE text[i]]

\* str.startswith
startswith(text, prefix) ==
    Len(prefix) <= Len(text) /\ SubSeq(text, 1, Len(prefix)) = prefix

\* sub in text
contains(text, sub) ==
    \E i \in 0..(Len(text) - Len(sub)) : SubSeq(text, i + 1, i + Len(sub)) = sub

\* sep.join(texts)
RECURSIVE join(_, _)
join(sep, texts) ==
    IF texts = <<>> THEN <<>>
    ELSE IF Len(texts) = 1 THEN texts[1]
    ELSE texts[1] \o sep \o join(sep, Tail(texts))

\* str.splitlines: the lines of a text, without a last empty line when the
\* text ends with a line break
RECURSIVE splitlines(_)
splitlines(text) ==
    IF text = <<>> THEN <<>>
    ELSE IF \A i \in 1..Len(text) : text[i] # NL THEN <<text>>
    ELSE LET k == CHOOSE i \in 1..Len(text) :
                     text[i] = NL /\ \A j \in 1..(i - 1) : text[j] # NL
         IN  <<SubSeq(text, 1, k - 1)>> \o splitlines(SubSeq(text, k + 1, Len(text)))

\* The decimal digits of a natural number
RECURSIVE Digits(_)
Digits(n) ==
    IF n < 10 THEN <<DigitChars[n + 1]>>
    ELSE Digits(n \div 10) \o <<DigitChars[(n % 10) + 1]>>

\* analysis.py line 33: f"{label}: {value:+.2f}%" as text
ChangeText(line) ==
    Spell(line.label) \o <<":", " ", line.pct.sign>> \o Digits(line.pct.whole)
        \o <<".", DigitChars[(line.pct.frac \div 10) + 1], DigitChars[(line.pct.frac % 10) + 1], "%">>

\* The text of the i-th reason of a Recommendation: summarize_trend puts the
\* three change lines first (lines 32-36), then the sentences
ReasonText(reasons, i) ==
    IF i <= Len(PctFields) THEN ChangeText(reasons[i]) ELSE Spell(reasons[i])

\* analysis.py lines 14-16: Recommendation.format
format(recommendation) ==
    <<"R", "e", "c", "o", "m", "m", "e", "n", "d", "e", "d", " ", "a", "c", "t", "i", "o", "n",
      ":", " ">> \o Spell(recommendation.action) \o <<NL>>
        \o join(<<NL>>, [i \in 1..Len(recommendation.reasons) |->
                            <<"-", " ">> \o ReasonText(recommendation.reasons, i)])

\* analysis.py lines 59-66: the lines render_report writes for the snapshot of
\* tests/test_analysis.py (price 50000, high 51000, low 49000, market cap
\* 1000000, volume 10000), and the empty line
HeaderLines ==
    <<<<"B", "T", "C", " ", "M", "a", "r", "k", "e", "t", " ", "S", "n", "a", "p", "s",
        "h", "o", "t">>,
      <<"F", "e", "t", "c", "h", "e", "d", " ", "a", "t", ":", " ", "2", "0", "2", "4",
        "-", "0", "1", "-", "0", "1", "T", "0", "0", ":", "0", "0", ":", "0", "0", "Z">>,
      <<"P", "r", "i", "c", "e", ":", " ", "$", "5", "0", ",", "0", "0", "0", ".", "0",
        "0">>,
      <<"2", "4", "h", " ", "H", "i", "g", "h", " ", "/", " ", "L", "o", "w", ":", " ",
        "$", "5", "1", ",", "0", "0", "0", ".", "0", "0", " ", "/", " ", "$", "4", "9",
        ",", "0", "0", "0", ".", "0", "0">>,
      <<"M", "a", "r", "k", "e", "t", " ", "C", "a", "p", ":", " ", "$", "1", ",", "0",
        "0", "0", ",", "0", "0", "0">>,
      <<"2", "4", "h", " ", "V", "o", "l", "u", "m", "e", ":", " ", "$", "1", "0", ",",
        "0", "0", "0">>,
      <<>>>>

\* analysis.py lines 56-69
render_report(md, recommendation) ==
    join(<<NL>>, HeaderLines \o <<format(recommendation)>>)

(***************************************************************************)
(* cli.py: _add_color                                                      *)
(***************************************************************************)
GREEN == "ESC[92m"
RED == "ESC[91m"
CYAN == "ESC[96m"
RESET == "ESC[0m"

\* lines 57-62: the colour of the "Recommended action" line
action_color(line) ==
    IF contains(lower(line), <<"b", "u", "y">>) THEN GREEN
    ELSE IF contains(lower(line), <<"r", "e", "d", "u", "c", "e">>) THEN RED
    ELSE CYAN

\* lines 54-65: one line of the report, coloured or not
color_line(line) ==
    IF \/ startswith(line, <<"P", "r", "i", "c", "e">>)
       \/ startswith(line, <<"2", "4", "h", " ", "H", "i", "g", "h">>)
    THEN <<CYAN>> \o line \o <<RESET>>
    ELSE IF startswith(line, <<"R", "e", "c", "o", "m", "m", "e", "n", "d", "e", "d", " ",
                               "a", "c", "t", "i", "o", "n">>)
    THEN <<action_color(line)>> \o line \o <<RESET>>
    ELSE line

\* lines 44-66
add_color(report) ==
    join(<<NL>>, [i \in 1..Len(splitlines(report)) |-> color_line(splitlines(report)[i])])

(***************************************************************************)
(* client.py                                                               *)
(***************************************************************************)
\* lines 82-90
required_fields == <<"current_price", "high_24h", "low_24h", "market_cap", "total_volume">>

\* Mutant: a null field counts as present.
is_missing_absent_only(record, field) == field \notin DOMAIN record

\* line 77: field not in record or record[field] is None
is_missing(record, field) == field \notin DOMAIN record \/ record[field] = NULL

\* lines 74-78: the required fields that are missing, in declaration order
missing_fields(record) ==
    SelectSeq(required_fields, LAMBDA field : is_missing(record, field))

\* lines 73-80: None, or the ValueError naming the missing fields
validate_record(record) ==
    IF missing_fields(record) # <<>>
    THEN Raise("ValueError", <<"Market data missing required fields">> \o missing_fields(record))
    ELSE Ok("None")

\* lines 49-71 for a decoded, non-error HTTP response
build_snapshot(body) ==
    IF body = <<>> THEN Raise("ValueError", <<"Empty response from market data provider">>)
    ELSE
    LET record == body[1]
        checked == validate_record(record)
        pct(field) == Get(record, field, Number(0))
    IN  IF checked.kind = "raise" THEN checked
        ELSE IF \/ \E i \in 1..Len(required_fields) :
                     Get(record, required_fields[i], NULL) = NULL
                \/ \E i \in 1..Len(PctFields) : pct(PctFields[i]) = NULL
        THEN \* float(None), or record[field] of an absent field
             Raise("TypeError", <<"float() argument must be a string or a real number">>)
        ELSE Ok([fetched_at |-> "utcnow",
                 price |-> record["current_price"].v,
                 high_24h |-> record["high_24h"].v,
                 low_24h |-> record["low_24h"].v,
                 market_cap |-> record["market_cap"].v,
                 total_volume |-> record["total_volume"].v,
                 price_change_percentage_1h_in_currency |-> pct(H1).v,
                 price_change_percentage_24h_in_currency |-> pct(H24).v,
                 price_change_percentage_7d_in_currency |-> pct(D7).v])

\* lines 20-71: the transport outcome, then the decoded body
fetch_bitcoin_snapshot(outcome, body) ==
    CASE outcome = "status_error" ->
           Raise("ConnectionError", <<"Market data provider returned HTTP error">>)
      [] outcome = "url_error" ->
           Raise("ConnectionError", <<"Failed to reach market data provider">>)
      [] OTHER -> build_snapshot(body)

(***************************************************************************)
(* data.py                                                                 *)
(***************************************************************************)
Str(text) == [type |-> "str", text |-> text]

\* One element of the "prices" list of the feed.
JsonPair(ts, price) == [type |-> "list", items |-> <<ts, price>>]

JsonTriple == [type |-> "list", items |-> <<Number(1), Number(500), Number(7)>>]

\* Entries of the feed: well-formed pairs (two of them out of time order), a
\* pair with a null price, a pair with a null timestamp, a list of three and a
\* bare number.
FeedEntries ==
    {JsonPair(Number(2000), Number(500)), JsonPair(Number(1000), Number(503)),
     JsonPair(Number(3000), NULL), JsonPair(NULL, Number(501)),
     JsonTriple, Number(500)}

EntryLists == UNION {[1..n -> FeedEntries] : n \in 0..MaxEntries}

\* The decoded body: a dict with a "prices" list, a dict whose "prices" is
\* no list, a dict without "prices".
JsonBodies ==
    {[type |-> "dict", prices |-> [type |-> "list", items |-> l]] : l \in EntryLists}
    \cup {[type |-> "dict", prices |-> Number(1)], [type |-> "dict"]}

\* What _http_get meets: a transport failure, a body that is no JSON, a body.
Feeds ==
    {[http |-> "failed"], [http |-> "ok", json |-> FALSE]}
    \cup {[http |-> "ok", json |-> TRUE, body |-> b] : b \in JsonBodies}

HoursArgs == {-1, 0, 6}

\* lines 28-35: the body, or MarketDataError
http_get(f) ==
    IF f.http = "failed" THEN Raise("MarketDataError", "HTTP request failed")
    ELSE Ok(f)

\* line 68: isinstance(entry, list) and len(entry) == 2
is_pair(e) == e.type = "list" /\ Len(e.items) = 2

\* lines 70-75: timestamp_ms / 1000 and float(price) succeed
converts(e) == e.items[1].type = "number" /\ e.items[2].type = "number"

\* lines 68-75: whether the loop appends a point for the entry
appended(e) == is_pair(e) /\ converts(e)

\* lines 66-75: the points built from the entries, in feed order
RECURSIVE parse_entries(_)
parse_entries(l) ==
    IF l = <<>> THEN <<>>
    ELSE IF appended(Head(l))
    THEN <<[time |-> Head(l).items[1].v, price |-> Head(l).items[2].v]>>
           \o parse_entries(Tail(l))
    ELSE parse_entries(Tail(l))

\* list.sort(key=time): stable insertion of p into the sorted list l
RECURSIVE insert_by_time(_, _)
insert_by_time(l, p) ==
    IF l = <<>> THEN <<p>>
    ELSE IF Head(l).time <= p.time THEN <<Head(l)>> \o insert_by_time(Tail(l), p)
    ELSE <<p>> \o l

RECURSIVE sort_by_time(_)
sort_by_time(l) ==
    IF l = <<>> THEN <<>>
    ELSE insert_by_time(sort_by_time(SubSeq(l, 1, Len(l) - 1)), l[Len(l)])

\* lines 38-81
fetch_price_points(h, f) ==
    IF h <= 0 THEN Raise("ValueError", "hours must be positive")
    ELSE IF http_get(f).kind = "raise" THEN http_get(f)
    ELSE IF ~f.json THEN Raise("MarketDataError", "Failed to decode response")
    ELSE IF "prices" \notin DOMAIN f.body \/ f.body.prices.type # "list"
    THEN Raise("MarketDataError", "Unexpected response structure: missing prices list")
    ELSE LET pts == parse_entries(f.body.prices.items)
         IN  IF pts = <<>> THEN Raise("MarketDataError", "No valid price points returned")
             ELSE Ok(sort_by_time(pts))

(***************************************************************************)
(* web.py                                                                  *)
(***************************************************************************)
\* The defaults of generate_signal(points).
DefaultShortWindow == 20

DefaultLongWindow == 60

\* The strings float() accepts, among those explored
NumericStrings == {"6", "-1", "0"}

FloatOfString(text) ==
    CASE text = "6" -> 6
      [] text = "-1" -> -1
      [] text = "0" -> 0

\* The hours parameter: the float default, a query string, None
HoursParams == {Number(6), Str("6"), Str("-1"), Str("abc"), Str(""), NULL}

\* float(x)
float(x) ==
    CASE x.type = "number" -> Ok(x.v)
      [] x.type = "str" ->
           IF x.text \in NumericStrings THEN Ok(FloatOfString(x.text))
           ELSE Raise("ValueError", "could not convert string to float")
      [] OTHER -> Raise("TypeError", "float() argument must be a string or a real number")

\* A fetcher is fetch_price_points over a feed, or a stub that returns or
\* raises the same thing for every hours value (tests/test_web.py).
Stub(outcome) == [type |-> "stub", outcome |-> outcome]

Real(f) == [type |-> "fetch_price_points", feed |-> f]

RECURSIVE PricesOf(_)
PricesOf(pts) == IF pts = <<>> THEN <<>> ELSE <<Head(pts).price>> \o PricesOf(Tail(pts))

\* fetcher(hours=hours): the prices of the returned points, or the raise
call_fetcher(f, h) ==
    IF f.type = "stub" THEN f.outcome
    ELSE LET r == fetch_price_points(h, f.feed)
         IN  IF r.kind = "ok" THEN Ok(PricesOf(r.value)) ELSE r

\* lines 117-129
serialize_signal(signal) ==
    [price |-> signal.details.price,
     short_ma |-> signal.details.short_ma,
     long_ma |-> signal.details.long_ma,
     volatility |-> signal.details.volatility,
     change_pct |-> signal.details.change_pct,
     sentiment |-> signal.sentiment,
     headline |-> signal.headline,
     caution |-> signal.caution,
     timestamp |-> "utcnow"]

\* line 143: except (MarketDataError, ValueError); StatisticsError is a
\* ValueError
caught(exc) == exc \in {"MarketDataError", "ValueError", "StatisticsError"}

\* Mutant: every failure is answered with one fixed message.
error_payload_generic(r) == [error |-> "internal error"]

\* line 144: {"error": str(exc)}
error_payload(r) == [error |-> r.msg]

\* lines 132-146.  An exception the function does not catch propagates.
build_signal_payload(hp, f) ==
    IF float(hp).kind = "raise"
    THEN Ok([status |-> 400, payload |-> [error |-> "hours must be a number"]])
    ELSE
    LET fetched == call_fetcher(f, float(hp).value)
        signal == generate_signal(fetched.value, DefaultShortWindow, DefaultLongWindow).result
    IN  IF fetched.kind = "raise"
        THEN (IF caught(fetched.exc)
              THEN Ok([status |-> 400, payload |-> error_payload(fetched)])
              ELSE fetched)
        ELSE IF signal.kind = "raise"
        THEN Ok([status |-> 400, payload |-> error_payload(signal)])
        ELSE Ok([status |-> 200, payload |-> serialize_signal(signal.value)])

\* Fetchers: stubs returning a series, stubs raising, and fetch_price_points
\* over a failing transport, an undecodable body and a one-point feed.
StubOutcomes ==
    {Ok(s) : s \in Series}
    \cup {Raise("ValueError", "boom"), Raise("MarketDataError", "HTTP request failed"),
          Raise("KeyError", "prices")}

Fetchers ==
    {Stub(o) : o \in StubOutcomes}
    \cup {Real([http |-> "failed"]), Real([http |-> "ok", json |-> FALSE]),
          Real([http |-> "ok", json |-> TRUE,
                body |-> [type |-> "dict",
                          prices |-> [type |-> "list",
                                      items |-> <<JsonPair(Number(2000), Number(500))>>]]])}

(***************************************************************************)
(* State machine: one run takes its inputs at Init and applies the         *)
(* functions of its entry point to them, each at most once.                *)
(***************************************************************************)
Ops == {"moving_average", "price_change", "volatility", "generate_signal",
        "summarize_trend", "fetch_bitcoin_snapshot", "fetch_price_points",
        "build_signal_payload", "add_color"}

NoCall == [op \in Ops |-> Pending]

\* The arguments an entry point does not take
NoWebInput ==
    /\ hours_param = NULL
    /\ fetcher = NULL
    /\ hours = 0
    /\ feed = NULL

NoSeriesInput ==
    /\ points = <<>>
    /\ window = 0
    /\ short_window = 0
    /\ long_window = 0
    /\ market_data = <<>>
    /\ http = "none"
    /\ payload = <<>>

\* Neither the server nor the polling loop runs
NoProcess ==
    /\ thread = <<>>
    /\ frames = <<>>
    /\ cli = NULL

InitIndicators ==
    /\ entry = "indicators"
    /\ points \in Series
    /\ window \in Windows
    /\ short_window = 0
    /\ long_window = 0
    /\ market_data = <<>>
    /\ http = "none"
    /\ payload = <<>>
    /\ NoWebInput

InitAnalyzer ==
    /\ entry = "analyzer"
    /\ points \in Series
    /\ window = 0
    /\ short_window \in Windows
    /\ long_window \in Windows
    /\ market_data = <<>>
    /\ http = "none"
    /\ payload = <<>>
    /\ NoWebInput

InitAnalysis ==
    /\ entry = "analysis"
    /\ points = <<>>
    /\ window = 0
    /\ short_window = 0
    /\ long_window = 0
    /\ market_data \in MarketData
    /\ http = "none"
    /\ payload = <<>>
    /\ NoWebInput

InitClient ==
    /\ entry = "client"
    /\ points = <<>>
    /\ window = 0
    /\ short_window = 0
    /\ long_window = 0
    /\ market_data = <<>>
    /\ \/ http = "ok" /\ payload \in Payloads
       \/ http \in {"status_error", "url_error"} /\ payload = <<>>
    /\ NoWebInput

InitData ==
    /\ entry = "data"
    /\ NoSeriesInput
    /\ hours_param = NULL
    /\ fetcher = NULL
    /\ hours \in HoursArgs
    /\ feed \in Feeds

InitWeb ==
    /\ entry = "web"
    /\ NoSeriesInput
    /\ hours_param \in HoursParams
    /\ fetcher \in Fetchers
    /\ hours = 0
    /\ feed = NULL

Init ==
    /\ \/ InitIndicators
       \/ InitAnalyzer
       \/ InitAnalysis
       \/ InitClient
       \/ InitData
       \/ InitWeb
    /\ ret = NoCall
    /\ NoProcess

\* What a function call leaves alone: its arguments, and the server and the
\* polling loop, which the run does not start.
inputs == <<entry, points, window, short_window, long_window, market_data, http, payload,
            hours_param, fetcher, hours, feed, thread, frames, cli>>

MovingAverage ==
    /\ entry = "indicators"
    /\ ret["moving_average"] = Pending
    /\ ret' = [ret EXCEPT !["moving_average"] = moving_average(points, window)]
    /\ UNCHANGED inputs

PriceChange ==
    /\ entry = "indicators"
    /\ ret["price_change"] = Pending
    /\ ret' = [ret EXCEPT !["price_change"] = price_change(points)]
    /\ UNCHANGED inputs

Volatility ==
    /\ entry = "indicators"
    /\ ret["volatility"] = Pending
    /\ ret' = [ret EXCEPT !["volatility"] = volatility(points, window)]
    /\ UNCHANGED inputs

GenerateSignal ==
    /\ entry = "analyzer"
    /\ ret["generate_signal"] = Pending
    /\ ret' = [ret EXCEPT !["generate_signal"] =
                  generate_signal(points, short_window, long_window)]
    /\ UNCHANGED inputs

SummarizeTrend ==
    /\ entry = "analysis"
    /\ ret["summarize_trend"] = Pending
    /\ ret' = [ret EXCEPT !["summarize_trend"] = Ok(summarize_trend(market_data))]
    /\ UNCHANGED inputs

\* cli.py lines 33-39: the report of the snapshot, coloured
AddColor ==
    /\ entry = "analysis"
    /\ ret["add_color"] = Pending
    /\ ret' = [ret EXCEPT !["add_color"] =
                  Ok(add_color(render_report(market_data, summarize_trend(market_data))))]
    /\ UNCHANGED inputs

FetchBitcoinSnapshot ==
    /\ entry = "client"
    /\ ret["fetch_bitcoin_snapshot"] = Pending
    /\ ret' = [ret EXCEPT !["fetch_bitcoin_snapshot"] =
                  fetch_bitcoin_snapshot(http, payload)]
    /\ UNCHANGED inputs

FetchPricePoints ==
    /\ entry = "data"
    /\ ret["fetch_price_points"] = Pending
    /\ ret' = [ret EXCEPT !["fetch_price_points"] = fetch_price_points(hours, feed)]
    /\ UNCHANGED inputs

BuildSignalPayload ==
    /\ entry = "web"
    /\ ret["build_signal_payload"] = Pending
    /\ ret' = [ret EXCEPT !["build_signal_payload"] =
                  build_signal_payload(hours_param, fetcher)]
    /\ UNCHANGED inputs

Next ==
    \/ MovingAverage
    \/ PriceChange
    \/ Volatility
    \/ GenerateSignal
    \/ SummarizeTrend
    \/ AddColor
    \/ FetchBitcoinSnapshot
    \/ FetchPricePoints
    \/ BuildSignalPayload

Spec == Init /\ [][Next]_vars

(***************************************************************************)
(* web.py: the threaded server of serve().  ThreadingHTTPServer handles    *)
(* each request in a thread of its own, which runs do_GET once; the        *)
(* handler's working values are locals of that call.                       *)
(***************************************************************************)
Requests == 1..MaxRequests

\* serve(hours=6.0): the default_hours the handler class closes over
DefaultHours == Number(6)

\* The requests a client sends: the API with no query, with hours=6, with
\* hours=abc, the dashboard and an unknown path.
RequestKinds ==
    {[path |-> "/api/signal", query |-> <<>>],
     [path |-> "/api/signal", query |-> [hours |-> Str("6")]],
     [path |-> "/api/signal", query |-> [hours |-> Str("abc")]],
     [path |-> "/", query |-> <<>>],
     [path |-> "/missing", query |-> <<>>]}

\* What the fetcher gives one call: 80 points, two points, or a raise.
FetchOutcomes ==
    {Ok(RampUp), Ok(RampDown), Ok(<<100, 110>>),
     Raise("MarketDataError", "HTTP request failed"), Raise("KeyError", "prices")}

\* line 157: query.get("hours", [default_hours])[0]
hours_param_of(request) == Get(request.query, "hours", DefaultHours)

\* A local that no statement has bound yet: reading it raises
Unbound(name) == Raise("UnboundLocalError", name)

NoFrame == [hours_param |-> NULL, fetched |-> Unbound("points"), result |-> Unbound("payload")]

\* Mutant: the working values live in one place shared by all handlers.
frame_shared(t) == 1

\* lines 153-159: the frame of the do_GET call that thread t runs
frame_of(t) == t

Idle == [pc |-> "idle", request |-> NULL, fetched |-> Unbound("points"), response |-> NULL]

InitServer ==
    /\ entry = "server"
    /\ NoSeriesInput
    /\ NoWebInput
    /\ ret = NoCall
    /\ thread = [t \in Requests |-> Idle]
    /\ frames = [f \in Requests |-> NoFrame]
    /\ cli = NULL

calls == <<entry, points, window, short_window, long_window, market_data, http, payload,
           hours_param, fetcher, hours, feed, ret>>

\* lines 153-167: a request arrives and do_GET routes it
Accept(t) ==
    /\ entry = "server"
    /\ thread[t].pc = "idle"
    /\ \E request \in RequestKinds :
         IF request.path = "/api/signal"
         THEN /\ thread' = [thread EXCEPT ![t].pc = "fetch", ![t].request = request]
              /\ frames' = [frames EXCEPT
                              ![frame_of(t)].hours_param = hours_param_of(request)]
         ELSE /\ thread' = [thread EXCEPT
                              ![t].pc = "sent",
                              ![t].request = request,
                              ![t].response =
                                 IF request.path = "/"
                                 THEN [status |-> 200, payload |-> "TEMPLATE"]
                                 ELSE [status |-> 404, payload |-> ""]]
              /\ UNCHANGED frames
    /\ UNCHANGED <<calls, cli>>

\* lines 135-141: float(hours_param), then the fetcher's call
Fetch(t) ==
    /\ entry = "server"
    /\ thread[t].pc = "fetch"
    /\ IF float(frames[frame_of(t)].hours_param).kind = "raise"
       THEN /\ thread' = [thread EXCEPT ![t].pc = "analyse"]
            /\ UNCHANGED frames
       ELSE \E outcome \in FetchOutcomes :
              /\ thread' = [thread EXCEPT ![t].pc = "analyse", ![t].fetched = outcome]
              /\ frames' = [frames EXCEPT ![frame_of(t)].fetched = outcome]
    /\ UNCHANGED <<calls, cli>>

\* lines 138-146: the status and payload build_signal_payload returns
Analyse(t) ==
    /\ entry = "server"
    /\ thread[t].pc = "analyse"
    /\ frames' = [frames EXCEPT
                    ![frame_of(t)].result =
                       build_signal_payload(frames[frame_of(t)].hours_param,
                                            Stub(frames[frame_of(t)].fetched))]
    /\ thread' = [thread EXCEPT ![t].pc = "send"]
    /\ UNCHANGED <<calls, cli>>

\* lines 158-160, 173-179: _send_json; an exception that escaped do_GET
\* closes the connection without a response
SendJson(t) ==
    /\ entry = "server"
    /\ thread[t].pc = "send"
    /\ thread' = [thread EXCEPT
                    ![t].pc = "sent",
                    ![t].response =
                       IF frames[frame_of(t)].result.kind = "ok"
                       THEN frames[frame_of(t)].result.value
                       ELSE [status |-> 0, payload |-> "connection closed"]]
    /\ frames' = [frames EXCEPT ![frame_of(t)] = NoFrame]
    /\ UNCHANGED <<calls, cli>>

NextServer == \E t \in Requests : Accept(t) \/ Fetch(t) \/ Analyse(t) \/ SendJson(t)

SpecServer == InitServer /\ [][NextServer]_vars

(***************************************************************************)
(* cli.py: the polling loop of main (lines 90-112).  The process runs      *)
(* without interruption: every fetch returns or raises, every sleep ends.  *)
(***************************************************************************)
\* --iterations: type=int, default 1; 0 means run for ever
IterationArgs == -1..MaxIterations

\* lines 99-106: what one pass through the try statement prints
Printouts == {"signal", "MarketDataError", "Exception"}

\* The lines printed so far; a run that never ends keeps the last
\* MaxIterations of them.
Scroll(printed) == IF Len(printed) > MaxIterations THEN Tail(printed) ELSE printed

\* Mutant: the loop leaves one iteration late.
should_break_late(iterations, iteration) == iterations # 0 /\ iteration > iterations

\* line 109: if args.iterations and iteration >= args.iterations
should_break(iterations, iteration) == iterations # 0 /\ iteration >= iterations

InitCli ==
    /\ entry = "cli"
    /\ NoSeriesInput
    /\ NoWebInput
    /\ ret = NoCall
    /\ thread = <<>>
    /\ frames = <<>>
    /\ \E n \in IterationArgs :
         cli = [iterations |-> n, iteration |-> 0, pc |-> "try", printed |-> <<>>]

\* lines 99-106: fetch, analyse and print, or print the failure
Attempt ==
    /\ entry = "cli"
    /\ cli.pc = "try"
    /\ \E out \in Printouts :
         cli' = [cli EXCEPT !.pc = "count", !.printed = Scroll(Append(@, out))]
    /\ UNCHANGED <<calls, thread, frames>>

\* lines 108-110: iteration += 1, then break or go on.  With iterations = 0
\* the counter is never compared, and the model stops counting at
\* MaxIterations.
Count ==
    /\ entry = "cli"
    /\ cli.pc = "count"
    /\ LET iteration == IF cli.iterations = 0 /\ cli.iteration >= MaxIterations
                        THEN cli.iteration
                        ELSE cli.iteration + 1
       IN  cli' = [cli EXCEPT
                     !.iteration = iteration,
                     !.pc = IF should_break(cli.iterations, iteration)
                            THEN "done" ELSE "sleep"]
    /\ UNCHANGED <<calls, thread, frames>>

\* line 112: time.sleep(max(10, args.interval))
Sleep ==
    /\ entry = "cli"
    /\ cli.pc = "sleep"
    /\ cli' = [cli EXCEPT !.pc = "try"]
    /\ UNCHANGED <<calls, thread, frames>>

NextCli == Attempt \/ Count \/ Sleep

SpecCli == InitCli /\ [][NextCli]_vars /\ WF_vars(NextCli)

(***************************************************************************)
(* Properties.                                                             *)
(***************************************************************************)
Done(op) == ret[op] # Pending

\* s[lo] + ... + s[hi]
RECURSIVE SumRange(_, _, _)
SumRange(s, lo, hi) == IF lo > hi THEN 0 ELSE s[lo] + SumRange(s, lo + 1, hi)

\* C1: moving_average(prices, window) raises when window <= 0 or when
\* len(prices) < window, and otherwise returns the arithmetic mean of exactly
\* the last `window` elements; moving_average([1,2,3,4], 2) is 3.5 and a
\* window of 5 over 4 points raises.
C1_MovingAverageContract ==
    Done("moving_average") =>
        LET r == ret["moving_average"]
            n == Len(points)
        IN  /\ (window <= 0 \/ n < window) <=> r.kind = "raise"
            /\ r.kind # "raise" =>
                 /\ r.kind = "ok"
                 /\ r.value.num * window = SumRange(points, n - window + 1, n) * r.value.den
            /\ (points = <<1, 2, 3, 4>> /\ window = 2) =>
                 r.kind = "ok" /\ 2 * r.value.num = 7 * r.value.den
            /\ (points = <<1, 2, 3, 4>> /\ window = 5) => r.kind = "raise"

\* A mean was returned over a window shorter than the series, whose first and
\* last prices differ.
C1_Witness ==
    /\ Done("moving_average")
    /\ ret["moving_average"].kind = "ok"
    /\ window < Len(points)
    /\ points[1] # points[Len(points)]

\* C2: price_change(points) never raises; it returns 0.0 with fewer than two
\* points or when the second-to-last price is 0, and otherwise
\* (last - prev) / prev * 100 of the last two points alone (100 -> 110 gives 10).
C2_PriceChangeContract ==
    Done("price_change") =>
        LET r == ret["price_change"]
            n == Len(points)
        IN  /\ r.kind = "ok"
            /\ (n < 2 \/ points[n - 1] = 0) => r.value.num = 0
            /\ (n >= 2 /\ points[n - 1] # 0) =>
                 r.value.num * points[n - 1]
                     = (points[n] - points[n - 1]) * 100 * r.value.den
            /\ points = <<100, 110>> => r.value.num = 10 * r.value.den

\* A non-zero change was returned for a series of three or more points whose
\* first price differs from its second-to-last.
C2_Witness ==
    /\ Done("price_change")
    /\ Len(points) >= 3
    /\ points[1] # points[Len(points) - 1]
    /\ ret["price_change"].kind = "ok"
    /\ ret["price_change"].value.num # 0

\* C3: for every series with len(points) < window, volatility returns 0.0
\* where moving_average of the same series and window raises.
C3_LenientVolatility ==
    Len(points) < window =>
        /\ Done("volatility") => ret["volatility"] = Ok(Zero)
        /\ Done("moving_average") => ret["moving_average"].kind = "raise"

\* Both functions were applied to a non-empty series shorter than the window.
C3_Witness ==
    /\ Done("volatility")
    /\ Done("moving_average")
    /\ 0 < Len(points)
    /\ Len(points) < window
    /\ ret["volatility"].kind = "ok"
    /\ ret["moving_average"].kind = "raise"

\* The Signal a finished generate_signal returned
SignalReturned == Done("generate_signal") /\ ret["generate_signal"].result.kind = "ok"

TheSignal == ret["generate_signal"].result.value

\* short_ma > long_ma * 1.002 and change_pct > 0
BullishCondition(d) ==
    /\ RatGT(d.short_ma, Rat(d.long_ma.num * 1002, d.long_ma.den * 1000))
    /\ d.change_pct.num > 0

\* short_ma < long_ma * 0.998 and change_pct < 0
BearishCondition(d) ==
    /\ RatGT(Rat(d.long_ma.num * 998, d.long_ma.den * 1000), d.short_ma)
    /\ d.change_pct.num < 0

\* C4: generate_signal assigns exactly one sentiment: Bullish iff
\* short_ma > long_ma * 1.002 and change_pct > 0, Bearish iff
\* short_ma < long_ma * 0.998 and change_pct < 0, Neutral otherwise; the two
\* conditions never hold together.
C4_SentimentRule ==
    SignalReturned =>
        LET d == TheSignal.details
            s == TheSignal.sentiment
        IN  /\ s \in {"Bullish", "Bearish", "Neutral"}
            /\ s = "Bullish" <=> BullishCondition(d)
            /\ s = "Bearish" <=> BearishCondition(d)
            /\ s = "Neutral" <=> (~BullishCondition(d) /\ ~BearishCondition(d))
            /\ ~(BullishCondition(d) /\ BearishCondition(d))

\* A Neutral signal whose short average is above the long one, inside the
\* dead-band, with a positive last change.
C4_Witness ==
    /\ SignalReturned
    /\ TheSignal.sentiment = "Neutral"
    /\ RatGT(TheSignal.details.short_ma, TheSignal.details.long_ma)
    /\ TheSignal.details.change_pct.num > 0
\* Both windows of generate_signal select a non-empty suffix of the series.
ValidWindows ==
    /\ 1 <= short_window
    /\ short_window <= long_window
    /\ long_window <= Len(points)

NonDecreasing(s) == \A i \in 1..(Len(s) - 1) : s[i] <= s[i + 1]

NonIncreasing(s) == \A i \in 1..(Len(s) - 1) : s[i] >= s[i + 1]

Flat(s) == \A i \in 1..(Len(s) - 1) : s[i] = s[i + 1]

\* The mean of the last w points, for 1 <= w <= Len(points)
MeanOfLast(w) == Rat(SumRange(points, Len(points) - w + 1, Len(points)), w)

\* The sign of the last percentage change (last - prev) / prev * 100, which is
\* 0.0 for fewer than two points and for prev = 0.
LastChangeSign ==
    IF Len(points) < 2 THEN 0
    ELSE LET prev == points[Len(points) - 1]
             last == points[Len(points)]
         IN  IF prev = 0 \/ last = prev THEN 0
             ELSE IF (last > prev) = (prev > 0) THEN 1
             ELSE -1

Classified(sentiment) == SignalReturned /\ TheSignal.sentiment = sentiment

C6_InsufficientDataRaises ==
    (Done("generate_signal") /\ Len(points) < long_window) =>
        /\ ret["generate_signal"].result
             = Raise("ValueError", "Not enough data to compute signals")
        /\ ret["generate_signal"].calls = <<>>

\* generate_signal was applied to a non-empty series one point short of the
\* long window, with a short window the series covers.
C6_Witness ==
    /\ Done("generate_signal")
    /\ Len(points) >= 1
    /\ Len(points) + 1 = long_window
    /\ 1 <= short_window
    /\ short_window <= Len(points)
    /\ ret["generate_signal"].result.kind = "raise"

SUFFIX == "volatility elevated, manage position size"

HasSuffix(signal) == Len(signal.headline) = 2 /\ signal.headline[2] = SUFFIX

\* The sample variance of the last n points of the series, n >= 2
VarianceOfLast(n) ==
    LET lo == Len(points) - n + 1
        sq == [i \in 1..Len(points) |-> points[i] * points[i]]
    IN  Rat(n * SumRange(sq, lo, Len(points))
              - SumRange(points, lo, Len(points)) * SumRange(points, lo, Len(points)),
            n * (n - 1))

\* C7: generate_signal appends the volatility suffix to the headline iff
\* vol > 0.01 * long_ma, vol being the volatility of the last
\* min(len(points), 60) points; under each sentiment the headline keeps the
\* sentiment's own text in front and the sentiment stays the one the details
\* decide.
C7_VolatilitySuffix ==
    SignalReturned =>
        LET d == TheSignal.details
            n == IF Len(points) < 60 THEN Len(points) ELSE 60
            threshold == Rat(d.long_ma.num * d.long_ma.num,
                             d.long_ma.den * d.long_ma.den * 10000)
        IN  /\ RatEq(d.volatility, VarianceOfLast(n))
            /\ HasSuffix(TheSignal) <=>
                 (d.long_ma.num < 0 \/ RatGT(d.volatility, threshold))
            /\ ~HasSuffix(TheSignal) => Len(TheSignal.headline) = 1
            /\ TheSignal.headline[1] =
                 (CASE TheSignal.sentiment = "Bullish" ->
                         "short MA crossed above long MA, momentum up"
                    [] TheSignal.sentiment = "Bearish" ->
                         "short MA crossed below long MA, watch for pullback"
                    [] TheSignal.sentiment = "Neutral" -> "no clear price signal")
            /\ TheSignal.sentiment = "Bullish" <=> BullishCondition(d)
            /\ TheSignal.sentiment = "Bearish" <=> BearishCondition(d)

\* A Bearish signal whose headline carries the suffix.
C7_Witness ==
    /\ Classified("Bearish")
    /\ HasSuffix(TheSignal)
    /\ TheSignal.details.volatility.num > 0
RecommendationReturned == Done("summarize_trend")

TheRecommendation == ret["summarize_trend"].value

\* market_data.get(field, 0.0)
Change(field) == IF field \in DOMAIN market_data THEN market_data[field] ELSE 0

\* C8: summarize_trend chooses exactly one action from the 1h and 24h changes
\* alone: "Consider buying" iff 1h > 0.25 and 24h > 0.5, "Consider reducing
\* exposure" iff 1h < -0.25 and 24h < -0.5, "Hold / wait" otherwise, the
\* boundary values and missing fields (read as 0.0) included.
C8_ActionRule ==
    RecommendationReturned =>
        LET a == TheRecommendation.action
            buy == Change(H1) > 25 /\ Change(H24) > 50
            reduce == Change(H1) < -25 /\ Change(H24) < -50
        IN  /\ a \in {"Consider buying", "Consider reducing exposure", "Hold / wait"}
            /\ a = "Consider buying" <=> buy
            /\ a = "Consider reducing exposure" <=> reduce
            /\ a = "Hold / wait" <=> (~buy /\ ~reduce)

\* "Hold / wait" was chosen with the 1h change on its boundary 0.25, the 24h
\* change above 0.5 and a 7d change above 5.
C8_Witness ==
    /\ RecommendationReturned
    /\ H1 \in DOMAIN market_data
    /\ market_data[H1] = 25
    /\ Change(H24) > 50
    /\ Change(D7) > 500
    /\ TheRecommendation.action = "Hold / wait"

PrimaryReasonOf(action) ==
    CASE action = "Consider buying" ->
           "Momentum is positive across multiple timeframes."
      [] action = "Consider reducing exposure" ->
           "Downward pressure visible in short-term and daily moves."
      [] action = "Hold / wait" ->
           "Signals are mixed; waiting for clarity may reduce risk."

\* The line f"{label}: {v:+.2f}%" shows the value v (in hundredths)
Shows(line, label, v) ==
    /\ line.label = label
    /\ line.pct.sign = (IF v < 0 THEN "-" ELSE "+")
    /\ line.pct.whole * 100 + line.pct.frac = (IF v < 0 THEN -v ELSE v)
    /\ line.pct.frac \in 0..99

\* C9: the reasons start with the three percentage lines in the order 1h,
\* 24h, 7d, then exactly one primary reason matching the action, then the
\* weekly-performance reason iff 7d > 5 or the weekly-drawdown reason iff
\* 7d < -5, and nothing else, whatever the action.
C9_ReasonsLayout ==
    RecommendationReturned =>
        LET r == TheRecommendation.reasons
            week == Change(D7)
        IN  /\ Len(r) \in {4, 5}
            /\ Shows(r[1], "1h change", Change(H1))
            /\ Shows(r[2], "24h change", Change(H24))
            /\ Shows(r[3], "7d change", week)
            /\ r[4] = PrimaryReasonOf(TheRecommendation.action)
            /\ Len(r) = 5 <=> (week > 500 \/ week < -500)
            /\ week > 500 =>
                 r[5] = "Strong weekly performance suggests upward trend."
            /\ week < -500 =>
                 r[5] = "Sustained weekly drawdown indicates elevated downside risk."

\* "Hold / wait" was returned with the weekly-drawdown reason in fifth place.
C9_Witness ==
    /\ RecommendationReturned
    /\ TheRecommendation.action = "Hold / wait"
    /\ Change(D7) < -500
    /\ Len(TheRecommendation.reasons) = 5

SnapshotDone == Done("fetch_bitcoin_snapshot")

TheRecord == payload[1]

Required == {"current_price", "high_24h", "low_24h", "market_cap", "total_volume"}

\* The required fields absent from the record or null in it
MissingIn(record) ==
    {f \in Required : f \notin DOMAIN record \/ record[f] = [type |-> "null"]}

\* C10: fetch_bitcoin_snapshot raises an error naming the missing fields
\* whenever a required field is absent or null in the source record, returning
\* no snapshot; with the five present and the three percentage-change fields
\* omitted it returns a snapshot whose three change fields are 0.0.
C10_RequiredFields ==
    (SnapshotDone /\ http = "ok" /\ payload # <<>>) =>
        LET r == ret["fetch_bitcoin_snapshot"]
            miss == MissingIn(TheRecord)
        IN  /\ miss # {} =>
                 /\ r.kind = "raise"
                 /\ r.exc = "ValueError"
                 /\ r.msg[1] = "Market data missing required fields"
                 /\ {r.msg[i] : i \in 2..Len(r.msg)} = miss
                 /\ Len(r.msg) = 1 + Cardinality(miss)
            /\ (miss = {} /\ DOMAIN TheRecord = Required) =>
                 /\ r.kind = "ok"
                 /\ r.value.price = TheRecord["current_price"].v
                 /\ r.value.market_cap = TheRecord["market_cap"].v
                 /\ r.value.price_change_percentage_1h_in_currency = 0
                 /\ r.value.price_change_percentage_24h_in_currency = 0
                 /\ r.value.price_change_percentage_7d_in_currency = 0

\* The fetch failed on a record with market_cap absent and total_volume null.
C10_Witness ==
    /\ SnapshotDone
    /\ http = "ok"
    /\ payload # <<>>
    /\ "market_cap" \notin DOMAIN TheRecord
    /\ "total_volume" \in DOMAIN TheRecord
    /\ TheRecord["total_volume"] = [type |-> "null"]
    /\ ret["fetch_bitcoin_snapshot"].kind = "raise"
PayloadDone == Done("build_signal_payload")

SignalKeys ==
    {"price", "short_ma", "long_ma", "volatility", "change_pct", "sentiment",
     "headline", "caution", "timestamp"}

\* hours_param is a number or a string float() accepts
HoursParses ==
    \/ hours_param.type = "number"
    \/ hours_param.type = "str" /\ hours_param.text \in {"6", "-1", "0"}

HoursValue ==
    IF hours_param.type = "number" THEN hours_param.v
    ELSE IF hours_param.text = "6" THEN 6
    ELSE IF hours_param.text = "-1" THEN -1
    ELSE 0

\* C11: build_signal_payload returns status 200 with exactly the nine signal
\* keys and no "error" key exactly when hours parses as a number and both the
\* fetch and generate_signal succeed; when the fetcher or generate_signal
\* raises MarketDataError or ValueError it returns status 400 with
\* {"error": m}, m the message of that exception unchanged.
C11_PayloadContract ==
    PayloadDone =>
        LET r == ret["build_signal_payload"]
            fetched == call_fetcher(fetcher, HoursValue)
            signal == generate_signal(fetched.value, 20, 60).result
            succeeds == HoursParses /\ fetched.kind = "ok" /\ signal.kind = "ok"
        IN  /\ (r.kind = "ok" /\ r.value.status = 200) <=> succeeds
            /\ succeeds =>
                 /\ DOMAIN r.value.payload = SignalKeys
                 /\ r.value.payload.price = signal.value.details.price
                 /\ r.value.payload.sentiment = signal.value.sentiment
            /\ ( /\ HoursParses
                 /\ fetched.kind = "raise"
                 /\ fetched.exc \in {"MarketDataError", "ValueError"} ) =>
                 r = Ok([status |-> 400, payload |-> [error |-> fetched.msg]])
            /\ (HoursParses /\ fetched.kind = "ok" /\ signal.kind = "raise") =>
                 r = Ok([status |-> 400, payload |-> [error |-> signal.msg]])

\* A fetched, non-empty series too short for generate_signal was answered
\* with status 400 and generate_signal's message.
C11_Witness ==
    /\ PayloadDone
    /\ fetcher.type = "stub"
    /\ fetcher.outcome.kind = "ok"
    /\ fetcher.outcome.value # <<>>
    /\ ret["build_signal_payload"].kind = "ok"
    /\ ret["build_signal_payload"].value.status = 400
    /\ ret["build_signal_payload"].value.payload.error
         = "Not enough data to compute signals"

\* An entry of the "prices" list that is a [timestamp, price] pair of numbers
ValidEntry(e) ==
    /\ e.type = "list"
    /\ Len(e.items) = 2
    /\ e.items[1].type = "number"
    /\ e.items[2].type = "number"

\* The feed is empty or malformed: no JSON, no prices list, no entries, or an
\* entry that is no valid pair.
MalformedFeed ==
    \/ ~feed.json
    \/ "prices" \notin DOMAIN feed.body
    \/ feed.body.prices.type # "list"
    \/ feed.body.prices.items = <<>>
    \/ \E i \in 1..Len(feed.body.prices.items) : ~ValidEntry(feed.body.prices.items[i])

\* C12 as stated: fetch_price_points rejects with MarketDataError a feed that
\* is empty or malformed (no prices list, or entries that are not valid
\* [timestamp, price] pairs) instead of returning a result from which data
\* was dropped, and it never returns an empty series.
C12_AsStated ==
    (Done("fetch_price_points") /\ hours > 0 /\ feed.http = "ok") =>
        LET r == ret["fetch_price_points"]
        IN  /\ MalformedFeed => (r.kind = "raise" /\ r.exc = "MarketDataError")
            /\ r.kind = "ok" => r.value # <<>>
\* What build_signal_payload returns for request t's own hours parameter and
\* own fetched points
OwnAnswer(t) ==
    LET own == build_signal_payload(hours_param_of(thread[t].request),
                                    Stub(thread[t].fetched))
    IN  IF own.kind = "ok" THEN own.value
        ELSE [status |-> 0, payload |-> "connection closed"]

\* C13: whatever the interleaving of the requests the threaded server
\* handles, and whatever earlier requests returned, the response to each
\* GET /api/signal has the status and fields build_signal_payload returns for
\* that request's own hours parameter and fetched points.
C13_RequestsIndependent ==
    \A t \in DOMAIN thread :
        (thread[t].pc = "sent" /\ thread[t].request.path = "/api/signal") =>
            thread[t].response = OwnAnswer(t)

\* Two API requests were answered, one with status 200 and one with 400
\* from a fetch that failed.
C13_Witness ==
    /\ entry = "server"
    /\ \E t, u \in Requests :
         /\ thread[t].pc = "sent"
         /\ thread[u].pc = "sent"
         /\ thread[t].request.path = "/api/signal"
         /\ thread[u].request.path = "/api/signal"
         /\ thread[t].response.status = 200
         /\ thread[u].response.status = 400
         /\ thread[u].fetched.kind = "raise"
         /\ thread[u].fetched.exc = "MarketDataError"
\* C14: the polling loop run with --iterations N > 0 ends, and when it has
\* ended it has made exactly N iterations, each of which printed one result
\* or one failure; run with N = 0 it never ends; and after an iteration that
\* failed the loop goes on unless that iteration was the N-th.
C14_PollingLoop ==
    /\ [](cli.iterations > 0 /\ cli.pc = "done" =>
            cli.iteration = cli.iterations /\ Len(cli.printed) = cli.iterations)
    /\ [](cli.iterations = 0 => cli.pc # "done")
    /\ [](cli.iterations > 0 /\ cli.pc = "sleep" => cli.iteration < cli.iterations)
    /\ [](cli.pc = "sleep" => Len(cli.printed) >= 1)
    /\ [][cli.pc = "count" /\ cli.iterations > 0 =>
            /\ cli'.iteration = cli.iteration + 1
            /\ cli'.pc = IF cli'.iteration < cli.iterations THEN "sleep" ELSE "done"]_vars
    /\ (cli.iterations > 0 ~> cli.pc = "done")

\* A run of at least two iterations ended after its first iteration failed
\* and a later one printed a signal.
C14_Witness ==
    /\ entry = "cli"
    /\ cli.pc = "done"
    /\ cli.iterations >= 2
    /\ cli.printed[1] = "MarketDataError"
    /\ cli.printed[Len(cli.printed)] = "signal"
DetailKeys == {"price", "short_ma", "long_ma", "volatility", "change_pct"}

\* C15: for positive short_window <= long_window and a series of at least
\* long_window points, generate_signal returns a Signal whose details have
\* exactly the keys price, short_ma, long_ma, volatility and change_pct, with
\* price the last point's price.
C15_AsStated ==
    (Done("generate_signal") /\ ValidWindows) =>
        /\ SignalReturned
        /\ DOMAIN TheSignal.details = DetailKeys
        /\ TheSignal.details.price = points[Len(points)]
\* The report _add_color was applied to
TheReport == render_report(market_data, summarize_trend(market_data))

ColorCodes == {GREEN, RED, CYAN, RESET}

IsCode(c) == c \in ColorCodes

\* A text with the colour codes removed
Stripped(text) == SelectSeq(text, LAMBDA c : ~IsCode(c))

\* The line of a coloured report that shows the recommended action
ActionLine(colored) ==
    LET lines == splitlines(colored)
    IN  lines[CHOOSE i \in 1..Len(lines) :
                 startswith(Stripped(lines[i]), <<"R", "e", "c", "o", "m", "m", "e", "n", "d">>)]

ColorOfAction(action) ==
    CASE action = "Consider buying" -> GREEN
      [] action = "Consider reducing exposure" -> RED
      [] action = "Hold / wait" -> CYAN

\* C16: _add_color puts the "Recommended action" line of the rendered report
\* in green for "Consider buying", red for "Consider reducing exposure" and
\* cyan for "Hold / wait", and the coloured report without its colour codes
\* is the report.
C16_AsStated ==
    Done("add_color") =>
        /\ ActionLine(ret["add_color"].value)[1]
             = ColorOfAction(summarize_trend(market_data).action)
        /\ Stripped(ret["add_color"].value) = TheReport
====
